---- MODULE Spec2Model ----
(***************************************************************************)
(* Model of src/error.rs of prometheus-http-query: the global Error enum,  *)
(* the leaf error types it aggregates, and their Display implementations.  *)
(*                                                                         *)
(* Texts are TLA+ strings; a fmt::Formatter is modelled by the text that   *)
(* has been written to it so far, and `x.to_string()` by `fmt(x, "")`.     *)
(* The state is that of one caller that constructs a leaf error, possibly  *)
(* moves it into the global Error, and renders either of them.             *)
(***************************************************************************)
EXTENDS Integers, Sequences, FiniteSets, TLC

VARIABLES leaf, leafOut, err, out

vars == <<leaf, leafOut, err, out>>

(***************************************************************************)
(* Bounds of the model.                                                    *)
(***************************************************************************)
\* Longest payload string generated over Chars.
MaxLen == 2

\* Characters of generated payloads: a letter, a blank and a line break.
\* Blanks exercise trimming, the line break exercises line counts.
Chars == {"a", " ", "\n"}

RECURSIVE StringsOfLen(_)
StringsOfLen(n) ==
    IF n = 0 THEN {""}
    ELSE {s \o c : s \in StringsOfLen(n - 1), c \in Chars}

\* Payloads taken from the documentation's examples, and payloads that
\* imitate pieces of the message templates.
NotableStrings ==
    { "bad_data", "no query", "scalar", "pending", "  no query\t ",
      "the provided metric name is a reserved PromQL keyword",
      "', must be either 'vector' or 'matrix'",
      "the API returned an unknown response status , is 'x', must be either 'success' or 'error'" }

\* Every string a server field or a transport error's rendering may hold.
Strings == UNION {StringsOfLen(n) : n \in 0..MaxLen} \cup NotableStrings

(***************************************************************************)
(* Option<T>: None is the empty tuple, Some(x) the one-element tuple.      *)
(***************************************************************************)
None == <<>>
Some(x) == <<x>>
Unwrap(o) == o[1]

(***************************************************************************)
(* Text helpers.                                                           *)
(***************************************************************************)
Contains(text, sub) ==
    \E i \in 1..(Len(text) - Len(sub) + 1) : SubSeq(text, i, i + Len(sub) - 1) = sub

HasLineBreak(text) == Contains(text, "\n")

IsBlank(c) == c \in {" ", "\n", "\t"}

RECURSIVE TrimStart(_)
TrimStart(s) ==
    IF Len(s) > 0 /\ IsBlank(SubSeq(s, 1, 1)) THEN TrimStart(SubSeq(s, 2, Len(s))) ELSE s

RECURSIVE TrimEnd(_)
TrimEnd(s) ==
    IF Len(s) > 0 /\ IsBlank(SubSeq(s, Len(s), Len(s)))
    THEN TrimEnd(SubSeq(s, 1, Len(s) - 1)) ELSE s

Trim(s) == TrimEnd(TrimStart(s))

(***************************************************************************)
(* The leaf error types.                                                   *)
(***************************************************************************)
\* pub struct IllegalMetricNameError;
IllegalMetricNameError == [type |-> "IllegalMetricNameError"]

\* pub struct InvalidTimeDurationError;
InvalidTimeDurationError == [type |-> "InvalidTimeDurationError"]

\* pub struct IllegalTimeSeriesSelectorError;
IllegalTimeSeriesSelectorError == [type |-> "IllegalTimeSeriesSelectorError"]

ValidationErrors ==
    {IllegalMetricNameError, InvalidTimeDurationError, IllegalTimeSeriesSelectorError}

\* pub struct ResponseError { pub kind: String, pub message: String }
ResponseError(kind, message) ==
    [type |-> "ResponseError", kind |-> kind, message |-> message]

\* pub struct UnsupportedResponseDataType(pub String);
UnsupportedResponseDataType(data_type) ==
    [type |-> "UnsupportedResponseDataType", f0 |-> data_type]

\* pub struct UnknownResponseStatus(pub String);
UnknownResponseStatus(status) ==
    [type |-> "UnknownResponseStatus", f0 |-> status]

\* reqwest::Error is foreign and opaque: all this module uses of it is its
\* Display implementation, so a value is modelled by the text that
\* implementation writes, which may be any string.
ReqwestError(text) == [type |-> "reqwest::Error", text |-> text]

(***************************************************************************)
(* Display of the leaf types: fmt(&self, f) appends to the formatter f.    *)
(***************************************************************************)
\* A rendering with the message reworded.
IllegalMetricNameError_fmt_reworded(self, f) ==
    f \o "the provided metric name is a reserved keyword"

IllegalMetricNameError_fmt(self, f) ==
    f \o "the provided metric name is a reserved PromQL keyword"

InvalidTimeDurationError_fmt(self, f) ==
    f \o "the provided time duration is invalid as it does not comply with PromQL time duration syntax"

IllegalTimeSeriesSelectorError_fmt(self, f) ==
    f \o "vector selectors must either specify a name or at least one label matcher that does not match the empty string"

\* A rendering that trims the server's fields.
ResponseError_fmt_trimmed(self, f) ==
    f \o "the JSON response contains an error of type " \o Trim(self.kind)
      \o ": " \o Trim(self.message)

\* A rendering that puts the message on a line of its own.
ResponseError_fmt_twoLines(self, f) ==
    f \o "the JSON response contains an error of type " \o self.kind
      \o ":\n" \o self.message

ResponseError_fmt(self, f) ==
    f \o "the JSON response contains an error of type " \o self.kind
      \o ": " \o self.message

\* A rendering that leaves out the quotes around the offending type.
UnsupportedResponseDataType_fmt_unquoted(self, f) ==
    LET data_type == self.f0
    IN  f \o "the API returned an unsupported type of data, is " \o data_type
          \o ", must be either 'vector' or 'matrix'"

UnsupportedResponseDataType_fmt(self, f) ==
    LET data_type == self.f0
    IN  f \o "the API returned an unsupported type of data, is '" \o data_type
          \o "', must be either 'vector' or 'matrix'"

\* A rendering with the blank before the comma removed.
UnknownResponseStatus_fmt_noBlank(self, f) ==
    LET status == self.f0
    IN  f \o "the API returned an unknown response status, is '" \o status
          \o "', must be either 'success' or 'error'"

\* A rendering copied from UnsupportedResponseDataType and not adapted.
UnknownResponseStatus_fmt_copied(self, f) ==
    LET status == self.f0
    IN  f \o "the API returned an unsupported type of data, is '" \o status
          \o "', must be either 'vector' or 'matrix'"

UnknownResponseStatus_fmt(self, f) ==
    LET status == self.f0
    IN  f \o "the API returned an unknown response status , is '" \o status
          \o "', must be either 'success' or 'error'"

\* <reqwest::Error as Display>::fmt, as far as this module can see it.
ReqwestError_fmt(self, f) == f \o self.text

\* Display of whichever leaf value the caller holds (static dispatch on
\* the value's type).
Leaf_fmt(self, f) ==
    CASE self.type = "IllegalMetricNameError" -> IllegalMetricNameError_fmt(self, f)
      [] self.type = "InvalidTimeDurationError" -> InvalidTimeDurationError_fmt(self, f)
      [] self.type = "IllegalTimeSeriesSelectorError" -> IllegalTimeSeriesSelectorError_fmt(self, f)
      [] self.type = "ResponseError" -> ResponseError_fmt(self, f)
      [] self.type = "UnsupportedResponseDataType" -> UnsupportedResponseDataType_fmt(self, f)
      [] self.type = "UnknownResponseStatus" -> UnknownResponseStatus_fmt(self, f)
      [] self.type = "reqwest::Error" -> ReqwestError_fmt(self, f)

(***************************************************************************)
(* pub enum Error: its seven variants.                                     *)
(***************************************************************************)
\* A unit variant that was given a payload.
Error_IllegalMetricName_withName == [tag |-> "IllegalMetricName", e |-> "name"]

Error_IllegalMetricName == [tag |-> "IllegalMetricName"]

Error_InvalidTimeDuration == [tag |-> "InvalidTimeDuration"]

Error_IllegalTimeSeriesSelector == [tag |-> "IllegalTimeSeriesSelector"]

Error_Reqwest(e) == [tag |-> "Reqwest", e |-> e]

Error_ResponseError(e) == [tag |-> "ResponseError", e |-> e]

Error_UnsupportedResponseDataType(e) == [tag |-> "UnsupportedResponseDataType", e |-> e]

Error_UnknownResponseStatus(e) == [tag |-> "UnknownResponseStatus", e |-> e]

UnitVariants ==
    {Error_IllegalMetricName, Error_InvalidTimeDuration, Error_IllegalTimeSeriesSelector}

\* Moving a payload-bearing leaf into the variant of its type.
Wrap(e) ==
    CASE e.type = "reqwest::Error" -> Error_Reqwest(e)
      [] e.type = "ResponseError" -> Error_ResponseError(e)
      [] e.type = "UnsupportedResponseDataType" -> Error_UnsupportedResponseDataType(e)
      [] e.type = "UnknownResponseStatus" -> Error_UnknownResponseStatus(e)

\* The embedding of a standalone validation error into the global Error:
\* each unit struct goes to the unit variant of the same name.
Embed(e) ==
    CASE e = IllegalMetricNameError -> Error_IllegalMetricName
      [] e = InvalidTimeDurationError -> Error_InvalidTimeDuration
      [] e = IllegalTimeSeriesSelectorError -> Error_IllegalTimeSeriesSelector

(***************************************************************************)
(* impl fmt::Display for Error                                             *)
(***************************************************************************)
\* A rendering that labels the transport error.
Error_fmt_labelled(self, f) ==
    CASE self.tag = "IllegalMetricName" -> IllegalMetricNameError_fmt(IllegalMetricNameError, f)
      [] self.tag = "InvalidTimeDuration" -> InvalidTimeDurationError_fmt(InvalidTimeDurationError, f)
      [] self.tag = "IllegalTimeSeriesSelector" -> IllegalTimeSeriesSelectorError_fmt(IllegalTimeSeriesSelectorError, f)
      [] self.tag = "Reqwest" -> ReqwestError_fmt(self.e, f \o "transport error: ")
      [] self.tag = "ResponseError" -> ResponseError_fmt(self.e, f)
      [] self.tag = "UnsupportedResponseDataType" -> UnsupportedResponseDataType_fmt(self.e, f)
      [] self.tag = "UnknownResponseStatus" -> UnknownResponseStatus_fmt(self.e, f)

\* A rendering whose first two arms delegate to each other's leaf.
Error_fmt_swapped(self, f) ==
    CASE self.tag = "IllegalMetricName" -> InvalidTimeDurationError_fmt(InvalidTimeDurationError, f)
      [] self.tag = "InvalidTimeDuration" -> IllegalMetricNameError_fmt(IllegalMetricNameError, f)
      [] self.tag = "IllegalTimeSeriesSelector" -> IllegalTimeSeriesSelectorError_fmt(IllegalTimeSeriesSelectorError, f)
      [] self.tag = "Reqwest" -> ReqwestError_fmt(self.e, f)
      [] self.tag = "ResponseError" -> ResponseError_fmt(self.e, f)
      [] self.tag = "UnsupportedResponseDataType" -> UnsupportedResponseDataType_fmt(self.e, f)
      [] self.tag = "UnknownResponseStatus" -> UnknownResponseStatus_fmt(self.e, f)

Error_fmt(self, f) ==
    CASE self.tag = "IllegalMetricName" -> IllegalMetricNameError_fmt(IllegalMetricNameError, f)
      [] self.tag = "InvalidTimeDuration" -> InvalidTimeDurationError_fmt(InvalidTimeDurationError, f)
      [] self.tag = "IllegalTimeSeriesSelector" -> IllegalTimeSeriesSelectorError_fmt(IllegalTimeSeriesSelectorError, f)
      [] self.tag = "Reqwest" -> ReqwestError_fmt(self.e, f)
      [] self.tag = "ResponseError" -> ResponseError_fmt(self.e, f)
      [] self.tag = "UnsupportedResponseDataType" -> UnsupportedResponseDataType_fmt(self.e, f)
      [] self.tag = "UnknownResponseStatus" -> UnknownResponseStatus_fmt(self.e, f)

(***************************************************************************)
(* The caller.  leaf: the standalone error it holds; err: the global Error *)
(* it holds; leafOut, out: the texts obtained by rendering each.  A leaf   *)
(* moved into err stays readable through the variant, so it stays in leaf. *)
(***************************************************************************)
Init ==
    /\ leaf = None
    /\ leafOut = None
    /\ err = None
    /\ out = None

Idle == leaf = None /\ err = None

\* A validator signals one of the three validation errors.
NewValidationError ==
    /\ Idle
    /\ \E e \in ValidationErrors : leaf' = Some(e)
    /\ UNCHANGED <<leafOut, err, out>>

\* The transport fails with some error of its own.
NewReqwestError ==
    /\ Idle
    /\ \E text \in Strings : leaf' = Some(ReqwestError(text))
    /\ UNCHANGED <<leafOut, err, out>>

\* The decoder finds status "error" and copies the two error fields.
NewResponseError ==
    /\ Idle
    /\ \E kind \in Strings, message \in Strings :
           leaf' = Some(ResponseError(kind, message))
    /\ UNCHANGED <<leafOut, err, out>>

\* The decoder finds a result type it does not support.
NewUnsupportedResponseDataType ==
    /\ Idle
    /\ \E data_type \in Strings : leaf' = Some(UnsupportedResponseDataType(data_type))
    /\ UNCHANGED <<leafOut, err, out>>

\* The decoder finds a status that is neither "success" nor "error".
NewUnknownResponseStatus ==
    /\ Idle
    /\ \E status \in Strings : leaf' = Some(UnknownResponseStatus(status))
    /\ UNCHANGED <<leafOut, err, out>>

\* A unit variant of the global Error is constructed directly.
NewUnitVariant ==
    /\ Idle
    /\ \E e \in UnitVariants : err' = Some(e)
    /\ UNCHANGED <<leaf, leafOut, out>>

\* leaf.to_string()
LeafToString ==
    /\ leaf # None
    /\ leafOut = None
    /\ leafOut' = Some(Leaf_fmt(Unwrap(leaf), ""))
    /\ UNCHANGED <<leaf, err, out>>

\* A standalone validation error is embedded into the global Error.
EmbedValidationError ==
    /\ leaf # None
    /\ err = None
    /\ Unwrap(leaf) \in ValidationErrors
    /\ err' = Some(Embed(Unwrap(leaf)))
    /\ UNCHANGED <<leaf, leafOut, out>>

\* A payload-bearing leaf is moved into its variant of the global Error.
WrapLeaf ==
    /\ leaf # None
    /\ err = None
    /\ Unwrap(leaf) \notin ValidationErrors
    /\ err' = Some(Wrap(Unwrap(leaf)))
    /\ UNCHANGED <<leaf, leafOut, out>>

\* err.to_string()
ErrorToString ==
    /\ err # None
    /\ out = None
    /\ out' = Some(Error_fmt(Unwrap(err), ""))
    /\ UNCHANGED <<leaf, leafOut, err>>

\* The values go out of scope.
Drop ==
    /\ ~Idle
    /\ leaf' = None
    /\ leafOut' = None
    /\ err' = None
    /\ out' = None

Next ==
    \/ NewValidationError
    \/ NewReqwestError
    \/ NewResponseError
    \/ NewUnsupportedResponseDataType
    \/ NewUnknownResponseStatus
    \/ NewUnitVariant
    \/ LeafToString
    \/ EmbedValidationError
    \/ WrapLeaf
    \/ ErrorToString
    \/ Drop

Spec == Init /\ [][Next]_vars

(***************************************************************************)
(* Shorthands for the properties.                                          *)
(***************************************************************************)
\* The caller holds a standalone value of the given type and has rendered it.
LeafRendered(type) == leaf # None /\ Unwrap(leaf).type = type /\ leafOut # None

\* The caller holds a global Error of the given variant and has rendered it.
ErrorRendered(tag) == err # None /\ Unwrap(err).tag = tag /\ out # None

SevenTags ==
    { "IllegalMetricName", "InvalidTimeDuration", "IllegalTimeSeriesSelector",
      "Reqwest", "ResponseError", "UnsupportedResponseDataType",
      "UnknownResponseStatus" }

ValidationTags ==
    {"IllegalMetricName", "InvalidTimeDuration", "IllegalTimeSeriesSelector"}

\* Whether a string carried by the value (or, for the transport variant,
\* the wrapped error's own rendering) contains a line break.
PayloadHasLineBreak(e) ==
    CASE e.tag \in ValidationTags -> FALSE
      [] e.tag = "Reqwest" -> HasLineBreak(ReqwestError_fmt(e.e, ""))
      [] e.tag = "ResponseError" -> HasLineBreak(e.e.kind) \/ HasLineBreak(e.e.message)
      [] e.tag = "UnsupportedResponseDataType" -> HasLineBreak(e.e.f0)
      [] e.tag = "UnknownResponseStatus" -> HasLineBreak(e.e.f0)

\* Every value of the six variants other than Reqwest, within the bounds.
NonTransportErrors ==
    UnitVariants
    \cup {Error_ResponseError(ResponseError(k, m)) : k \in Strings, m \in Strings}
    \cup {Error_UnsupportedResponseDataType(UnsupportedResponseDataType(t)) : t \in Strings}
    \cup {Error_UnknownResponseStatus(UnknownResponseStatus(s)) : s \in Strings}

(***************************************************************************)
(* C1.  Rendering Error::Reqwest(e) gives exactly the text that rendering  *)
(* e itself gives: nothing is prepended, appended or altered.              *)
(***************************************************************************)
C1_TransportPassThrough ==
    ErrorRendered("Reqwest") =>
        /\ Unwrap(out) = ReqwestError_fmt(Unwrap(err).e, "")
        /\ leafOut # None => out = leafOut

C1_Witness ==
    /\ ErrorRendered("Reqwest")
    /\ LeafRendered("reqwest::Error")
    /\ Unwrap(leaf).text = " a"
    /\ Unwrap(out) = " a"

(***************************************************************************)
(* C2.  For all kind and message, empty and blank-padded ones included,    *)
(* ResponseError{kind, message} renders, standalone and inside             *)
(* Error::ResponseError, to                                                *)
(*   "the JSON response contains an error of type " + kind + ": " + message*)
(* with both fields verbatim.                                              *)
(***************************************************************************)
C2_Expected(e) ==
    "the JSON response contains an error of type " \o e.kind \o ": " \o e.message

C2_ResponseErrorVerbatim ==
    /\ LeafRendered("ResponseError") => Unwrap(leafOut) = C2_Expected(Unwrap(leaf))
    /\ ErrorRendered("ResponseError") => Unwrap(out) = C2_Expected(Unwrap(err).e)
    /\ (err = Some(Error_ResponseError(ResponseError("bad_data", "no query"))) /\ out # None)
           => Unwrap(out) = "the JSON response contains an error of type bad_data: no query"

C2_Witness ==
    /\ leaf = Some(ResponseError("", "  no query\t "))
    /\ leafOut = Some("the JSON response contains an error of type :   no query\t ")
    /\ ErrorRendered("ResponseError")
    /\ out = leafOut

(***************************************************************************)
(* C3.  Each standalone validation error embeds into the global Error      *)
(* without further data, and the embedding is lossless: the embedded value *)
(* renders to the same text as the directly constructed variant and as the *)
(* standalone value itself.                                                *)
(***************************************************************************)
C3_LosslessEmbedding ==
    \A v \in ValidationErrors :
        /\ Embed(v) \in UnitVariants
        /\ (err = Some(Embed(v)) /\ out # None) => Unwrap(out) = Leaf_fmt(v, "")
        /\ (leaf = Some(v) /\ err # None /\ out # None /\ leafOut # None) => out = leafOut

C3_Witness ==
    /\ leaf = Some(InvalidTimeDurationError)
    /\ err = Some(Error_InvalidTimeDuration)
    /\ leafOut # None
    /\ out # None

(***************************************************************************)
(* C5.  For every s, UnknownResponseStatus(s) renders, standalone and      *)
(* wrapped, to "the API returned an unknown response status , is '" + s +  *)
(* "', must be either 'success' or 'error'"; so the text contains "is 's'" *)
(* and names both "success" and "error".                                   *)
(***************************************************************************)
C5_Expected(e) ==
    "the API returned an unknown response status , is '" \o e.f0
        \o "', must be either 'success' or 'error'"

C5_UnknownStatusText ==
    /\ LeafRendered("UnknownResponseStatus") => Unwrap(leafOut) = C5_Expected(Unwrap(leaf))
    /\ ErrorRendered("UnknownResponseStatus") =>
           /\ Unwrap(out) = C5_Expected(Unwrap(err).e)
           /\ Contains(Unwrap(out), "is '" \o Unwrap(err).e.f0 \o "'")
           /\ Contains(Unwrap(out), "success")
           /\ Contains(Unwrap(out), "error")

C5_Witness ==
    /\ leaf = Some(UnknownResponseStatus("pending"))
    /\ leafOut # None
    /\ ErrorRendered("UnknownResponseStatus")
    /\ Contains(Unwrap(out), "is 'pending'")

(***************************************************************************)
(* C6.  For every t, UnsupportedResponseDataType(t) renders, standalone    *)
(* and wrapped, to "the API returned an unsupported type of data, is '" +  *)
(* t + "', must be either 'vector' or 'matrix'", t verbatim.               *)
(***************************************************************************)
C6_Expected(e) ==
    "the API returned an unsupported type of data, is '" \o e.f0
        \o "', must be either 'vector' or 'matrix'"

C6_UnsupportedTypeText ==
    /\ LeafRendered("UnsupportedResponseDataType") =>
           Unwrap(leafOut) = C6_Expected(Unwrap(leaf))
    /\ ErrorRendered("UnsupportedResponseDataType") =>
           Unwrap(out) = C6_Expected(Unwrap(err).e)

C6_Witness ==
    /\ leaf = Some(UnsupportedResponseDataType("scalar"))
    /\ leafOut # None
    /\ err = Some(Error_UnsupportedResponseDataType(UnsupportedResponseDataType("scalar")))
    /\ out = Some("the API returned an unsupported type of data, is 'scalar', must be either 'vector' or 'matrix'")

(***************************************************************************)
(* C7, as claimed: every variant, for every payload, renders to a text     *)
(* without a line break.                                                   *)
(***************************************************************************)
C7_SingleLine == out # None => ~HasLineBreak(Unwrap(out))

(***************************************************************************)
(* C7, amended: rendering adds no line break of its own.  The rendered     *)
(* text contains a line break exactly when a string the value carries (or  *)
(* the wrapped transport error's own rendering) contains one; the three    *)
(* validation variants always render to a single line.                     *)
(***************************************************************************)
C7_LineBreaksOnlyFromPayload ==
    (err # None /\ out # None) =>
        (HasLineBreak(Unwrap(out)) <=> PayloadHasLineBreak(Unwrap(err)))

C7_Witness ==
    /\ ErrorRendered("ResponseError")
    /\ Unwrap(err).e.kind = "a"
    /\ Unwrap(err).e.message = "a\n"
    /\ HasLineBreak(Unwrap(out))

(***************************************************************************)
(* C8.  The global Error is a closed union of exactly seven variants: every*)
(* value is one of them, the three validation variants carry no payload,   *)
(* the other four carry exactly one, and rendering is defined for each.    *)
(***************************************************************************)
C8_ClosedUnion ==
    err # None =>
        LET e == Unwrap(err)
        IN  /\ e.tag \in SevenTags
            /\ e.tag \in ValidationTags => DOMAIN e = {"tag"}
            /\ e.tag \notin ValidationTags => DOMAIN e = {"tag", "e"}
            /\ Error_fmt(e, "") \in STRING
            /\ out # None => Unwrap(out) \in STRING

C8_Witness ==
    /\ ErrorRendered("IllegalMetricName")
    /\ leaf = None
    /\ DOMAIN Unwrap(err) = {"tag"}

(***************************************************************************)
(* C9.  Each validation error always renders to its fixed message,         *)
(* standalone and as a variant of the global Error, whatever was           *)
(* constructed or rendered before.                                         *)
(***************************************************************************)
C9_FixedMessages ==
    /\ LeafRendered("IllegalMetricNameError") =>
           Unwrap(leafOut) = "the provided metric name is a reserved PromQL keyword"
    /\ ErrorRendered("IllegalMetricName") =>
           Unwrap(out) = "the provided metric name is a reserved PromQL keyword"
    /\ LeafRendered("InvalidTimeDurationError") =>
           Unwrap(leafOut) = "the provided time duration is invalid as it does not comply with PromQL time duration syntax"
    /\ ErrorRendered("InvalidTimeDuration") =>
           Unwrap(out) = "the provided time duration is invalid as it does not comply with PromQL time duration syntax"
    /\ LeafRendered("IllegalTimeSeriesSelectorError") =>
           Unwrap(leafOut) = "vector selectors must either specify a name or at least one label matcher that does not match the empty string"
    /\ ErrorRendered("IllegalTimeSeriesSelector") =>
           Unwrap(out) = "vector selectors must either specify a name or at least one label matcher that does not match the empty string"

C9_Witness ==
    /\ LeafRendered("IllegalMetricNameError")
    /\ ErrorRendered("IllegalMetricName")
    /\ Len(Unwrap(out)) = 53

(***************************************************************************)
(* C10.  Among the six variants other than Reqwest the rendered text       *)
(* identifies the variant: no value of another variant, whatever strings   *)
(* it carries, renders to the same text.                                   *)
(***************************************************************************)
C10_MessageIdentifiesVariant ==
    (err # None /\ out # None /\ Unwrap(err).tag # "Reqwest") =>
        \A other \in NonTransportErrors :
            other.tag # Unwrap(err).tag => Error_fmt(other, "") # Unwrap(out)

C10_Witness ==
    /\ ErrorRendered("ResponseError")
    /\ Unwrap(err).e.kind = ""
    /\ Unwrap(err).e.message = "the provided metric name is a reserved PromQL keyword"

====
